---- MODULE Spec2Model ----
(***************************************************************************)
(* force_ipv4.c: an LD_PRELOAD shim whose getaddrinfo() consults           *)
(* CURSOR_DNS_OVERRIDES ("host1=ip1,host2=ip2,...") and otherwise forces   *)
(* AF_INET on the request handed to the real getaddrinfo.                  *)
(*                                                                         *)
(* A C string is a tuple of one-character strings; the null pointer is     *)
(* NULL.  An optional struct is the empty tuple (null pointer) or a        *)
(* one-element tuple holding the struct.                                   *)
(***************************************************************************)
EXTENDS Integers, Sequences, FiniteSets, TLC

\* ------------------------------------------------------------------ bounds
\* Largest number of comma-separated entries of a generated configuration.
MaxEntries == 2
\* Number of threads of the host process in the concurrent specification.
NumThreads == 2

\* --------------------------------------------------------- C library values
NULL == <<"NULL">>

AF_INET == 2
SOCK_STREAM == 1
AI_NUMERICHOST == 4

Digits == {"0", "1", "2", "3", "4", "5", "6", "7", "8", "9"}
DigitChars == <<"0", "1", "2", "3", "4", "5", "6", "7", "8", "9">>
DigitVal(c) == (CHOOSE i \in 1..10 : DigitChars[i] = c) - 1

\* strlen(s + pos - 1) style helpers work on 1-based positions into a buffer.
RECURSIVE strspn(_, _, _)
\* number of leading characters of s, from position pos, that equal delim
strspn(s, pos, delim) ==
  IF pos > Len(s) \/ s[pos] # delim THEN 0 ELSE 1 + strspn(s, pos + 1, delim)

RECURSIVE strcspn(_, _, _)
\* number of leading characters of s, from position pos, that differ from delim
strcspn(s, pos, delim) ==
  IF pos > Len(s) \/ s[pos] = delim THEN 0 ELSE 1 + strcspn(s, pos + 1, delim)

\* strtok_r(buf or NULL, delim, &saveptr) resumed at position save of buf:
\* skips leading delimiters, returns the next token (NULL at the end of the
\* buffer) and the position from which the following call resumes.
strtok_r(buf, save, delim) ==
  LET start == save + strspn(buf, save, delim)
      end   == start + strcspn(buf, start, delim)
  IN  IF start > Len(buf)
      THEN [tok |-> NULL, save |-> start]
      ELSE [tok  |-> SubSeq(buf, start, end - 1),
            save |-> IF end > Len(buf) THEN end ELSE end + 1]

\* strchr(s, c): position of the first c in s, 0 for a null result.
strchr(s, c) ==
  LET n == strcspn(s, 1, c) IN IF n = Len(s) THEN 0 ELSE n + 1

\* strcmp(a, b): 0 exactly when the strings are equal (only == 0 is used).
strcmp(a, b) == IF a = b THEN 0 ELSE 1

\* strdup(s): a private copy of s (the allocation is taken to succeed; the
\* null result is handled by lookup_override below).
strdup(s) == s

RECURSIVE inet_pton4(_, _, _, _, _)
\* The dotted-decimal parser behind inet_pton(AF_INET, ...): exactly four
\* decimal octets 0..255 separated by single dots, no leading zero, nothing
\* else.  octs are the finished octets, cur the octet being read.
inet_pton4(s, i, octs, cur, saw_digit) ==
  LET fail == [ret |-> 0, addr |-> <<>>] IN
  IF i > Len(s)
  THEN IF saw_digit /\ Len(octs) = 3
       THEN [ret |-> 1, addr |-> Append(octs, cur)]
       ELSE fail
  ELSE IF s[i] \in Digits
       THEN LET new == cur * 10 + DigitVal(s[i]) IN
            IF saw_digit /\ cur = 0 THEN fail
            ELSE IF new > 255 THEN fail
            ELSE inet_pton4(s, i + 1, octs, new, TRUE)
       ELSE IF s[i] = "." /\ saw_digit
            THEN IF Len(octs) = 3 THEN fail
                 ELSE inet_pton4(s, i + 1, Append(octs, cur), 0, FALSE)
            ELSE fail

\* inet_pton(AF_INET, ip, addr): ret 1 and the address, or ret 0 and addr
\* left as it was (unset).
inet_pton(ip) == inet_pton4(ip, 1, <<>>, 0, FALSE)

RECURSIVE utoa(_)
\* decimal digits of a non-negative number
utoa(n) ==
  IF n < 10 THEN <<DigitChars[n + 1]>>
  ELSE utoa(n \div 10) \o <<DigitChars[(n % 10) + 1]>>

\* inet_ntop(AF_INET, addr, ...): the four octets in decimal joined by dots.
inet_ntop(addr) ==
  utoa(addr[1]) \o <<".">> \o utoa(addr[2]) \o <<".">> \o
  utoa(addr[3]) \o <<".">> \o utoa(addr[4])

\* ---------------------------------------------------------- lookup_override
\* The value lookup_override hands back: found and the filled in_addr.
NotFound == [found |-> 0, addr |-> <<>>]

\* found = (inet_pton(AF_INET, ip, addr) == 1)
Parsed(ip) ==
  LET r == inet_pton(ip) IN
  [found |-> IF r.ret = 1 THEN 1 ELSE 0, addr |-> r.addr]

\* Faulty variant: an unparsable literal lets the scan go on to the later entries.
Break_continue_on_bad_literal(parsed, rest) ==
  IF parsed.found = 1 THEN parsed ELSE rest

\* Faulty variant: the scan never stops, so the last matching entry wins.
Break_last_match_wins(parsed, rest) ==
  IF rest.found = 1 THEN rest ELSE parsed

\* `found = ...; break;`: the matching entry decides, the rest of the scan
\* (rest) is never run.
Break(parsed, rest) == parsed

\* Faulty variant: the wildcard suffix is taken without its leading dot (host + 2).
WildcardMatch_no_dot(host, node) ==
  /\ Len(host) >= 2
  /\ host[1] = "*"
  /\ host[2] = "."
  /\ LET suffix == SubSeq(host, 3, Len(host))
         slen == Len(suffix)
         nlen == Len(node)
     IN  nlen >= slen /\ strcmp(SubSeq(node, nlen - slen + 1, nlen), suffix) = 0

\* host[0] == '*' && host[1] == '.' and node ends with host + 1
WildcardMatch(host, node) ==
  /\ Len(host) >= 2
  /\ host[1] = "*"
  /\ host[2] = "."
  /\ LET suffix == SubSeq(host, 2, Len(host))
         slen == Len(suffix)
         nlen == Len(node)
     IN  nlen >= slen /\ strcmp(SubSeq(node, nlen - slen + 1, nlen), suffix) = 0

\* Faulty variant: the entry is split at its last '=' (strrchr for strchr).
SplitAt_last(tok) ==
  IF \E i \in 1..Len(tok) : tok[i] = "="
  THEN CHOOSE i \in 1..Len(tok) :
         tok[i] = "=" /\ \A j \in (i + 1)..Len(tok) : tok[j] # "="
  ELSE 0

\* char *eq = strchr(tok, '='): where the entry is split, 0 when eq is null.
SplitAt(tok) == strchr(tok, "=")

RECURSIVE ScanTokens(_, _, _)
\* The for loop over strtok_r(buf, ",", &saveptr), resumed at saveptr.
ScanTokens(buf, saveptr, node) ==
  LET t == strtok_r(buf, saveptr, ",") IN
  IF t.tok = NULL THEN NotFound
  ELSE LET tok  == t.tok
           eq   == SplitAt(tok)
           rest == ScanTokens(buf, t.save, node)
       IN  IF eq = 0 THEN rest
           ELSE LET host == SubSeq(tok, 1, eq - 1)
                    ip   == SubSeq(tok, eq + 1, Len(tok))
                IN  IF strcmp(host, node) = 0 THEN Break(Parsed(ip), rest)
                    ELSE IF WildcardMatch(host, node) THEN Break(Parsed(ip), rest)
                    ELSE rest

\* lookup_override(node, addr) with env the value getenv returned
lookup_override(env, node) ==
  IF env = NULL \/ node = NULL THEN NotFound
  ELSE LET buf == strdup(env) IN
       IF buf = NULL THEN NotFound
       ELSE ScanTokens(buf, 1, node)

\* ---------------------------------------------------------------- addrinfo
\* struct addrinfo x = {0}
ZeroAddrinfo ==
  [ai_flags |-> 0, ai_family |-> 0, ai_socktype |-> 0, ai_protocol |-> 0,
   ai_addrlen |-> 0, ai_addr |-> 0, ai_canonname |-> 0, ai_next |-> 0]

\* Faulty variant: the caller's flags are kept and the numeric-host flag added.
OverrideHints_keep_flags(hints) ==
  [ZeroAddrinfo EXCEPT
     !.ai_family   = AF_INET,
     !.ai_socktype = IF hints # <<>> THEN hints[1].ai_socktype ELSE SOCK_STREAM,
     !.ai_protocol = IF hints # <<>> THEN hints[1].ai_protocol ELSE 0,
     !.ai_flags    = IF hints # <<>> THEN hints[1].ai_flags + AI_NUMERICHOST
                     ELSE AI_NUMERICHOST]

\* override_hints as built in the override branch
OverrideHints(hints) ==
  [ZeroAddrinfo EXCEPT
     !.ai_family   = AF_INET,
     !.ai_socktype = IF hints # <<>> THEN hints[1].ai_socktype ELSE SOCK_STREAM,
     !.ai_protocol = IF hints # <<>> THEN hints[1].ai_protocol ELSE 0,
     !.ai_flags    = AI_NUMERICHOST]

\* Faulty variant: the family is forced only when the caller left it unspecified.
ModifiedHints_only_unspec(hints) ==
  LET base == IF hints # <<>> THEN hints[1] ELSE ZeroAddrinfo IN
  IF base.ai_family = 0 THEN [base EXCEPT !.ai_family = AF_INET] ELSE base

\* modified_hints as built in the fallback branch
ModifiedHints(hints) ==
  LET base == IF hints # <<>> THEN hints[1] ELSE ZeroAddrinfo IN
  [base EXCEPT !.ai_family = AF_INET]

\* ------------------------------------------------------ the host process
\* Function-pointer values: the null pointer and libc's getaddrinfo.
NullFn == "null"
RealFn == "libc_getaddrinfo"

\* dlsym(RTLD_NEXT, "getaddrinfo"): the next getaddrinfo in load order.
dlsym == RealFn

\* What one call of the real getaddrinfo can produce: status 0 with a result
\* list stored through res, or an error status with res left alone.
RealOutcomes ==
  {[status |-> 0, res |-> "list"], [status |-> -2, res |-> "untouched"]}

Threads == 1..NumThreads
\* The calling thread of the sequential specifications.
Callers == {1}

VARIABLES
  CURSOR_DNS_OVERRIDES, \* the environment variable: NULL (unset) or a string
  real_getaddrinfo,     \* the static function pointer of getaddrinfo
  observed,             \* per thread: it has seen real_getaddrinfo non-null
  pc,                   \* per thread: where it is inside getaddrinfo
  args,                 \* per thread: node, service, hints of the call
  env,                  \* per thread: lookup_override's env
  found,                \* per thread: lookup_override's result
  override_addr,        \* per thread: override_addr, <<>> while unset
  req,                  \* per thread: the request handed to the real resolver
  calls,                \* per thread: calls of the real resolver in this call
  out,                  \* per thread: what the real resolver produced
  ret,                  \* per thread: what getaddrinfo returns to its caller
  lastCall              \* the most recently returned call

vars == <<CURSOR_DNS_OVERRIDES, real_getaddrinfo, observed, pc, args, env,
          found, override_addr, req, calls, out, ret, lastCall>>

NoArgs == [node |-> NULL, service |-> NULL, hints |-> <<>>]

\* Faulty variant: the configuration is kept from the previous call (a cache filled
\* on first use) instead of being read again.
getenv_cached(value) ==
  IF lastCall # <<>> THEN lastCall[1].env ELSE value

\* Faulty variant: a built-in table stands in for an unset variable.
getenv_default(value) ==
  IF value = NULL
  THEN <<"a", "=", "1", ".", "1", ".", "1", ".", "1">>
  ELSE value

\* getenv("CURSOR_DNS_OVERRIDES"), value being the variable's current value
getenv(value) == value

\* Faulty variant: the binding is skipped.
NeedsBind_never(fn) == FALSE

\* if (!real_getaddrinfo)
NeedsBind(fn) == fn = NullFn

\* Faulty variant: resolver errors are folded into one status of the shim's own.
RetVal_translated(o) ==
  IF o.status = 0 THEN o ELSE [o EXCEPT !.status = -4]

\* return real_getaddrinfo(...): the callee's status, res written by it
RetVal(o) == o

\* The values a plain (unsynchronised) load of real_getaddrinfo by thread t
\* can yield: its current value, or the initial null as long as t has not
\* itself seen or stored a non-null value.
Load(t) ==
  IF observed[t] THEN {real_getaddrinfo} ELSE {NullFn, real_getaddrinfo}

\* The host process calls getaddrinfo(node, service, hints, res).
Enter(t, nodes, services, hintss) ==
  /\ pc[t] = "idle"
  /\ \E n \in nodes, s \in services, h \in hintss :
       args' = [args EXCEPT ![t] = [node |-> n, service |-> s, hints |-> h]]
  /\ pc' = [pc EXCEPT ![t] = "check"]
  /\ UNCHANGED <<CURSOR_DNS_OVERRIDES, real_getaddrinfo, observed, env, found,
                 override_addr, req, calls, out, ret, lastCall>>

\* if (!real_getaddrinfo)
CheckBind(t) ==
  /\ pc[t] = "check"
  /\ \E fn \in Load(t) :
       /\ observed' = [observed EXCEPT ![t] = observed[t] \/ fn # NullFn]
       /\ pc' = [pc EXCEPT ![t] = IF NeedsBind(fn) THEN "bind" ELSE "lookup"]
  /\ UNCHANGED <<CURSOR_DNS_OVERRIDES, real_getaddrinfo, args, env, found,
                 override_addr, req, calls, out, ret, lastCall>>

\* real_getaddrinfo = dlsym(RTLD_NEXT, "getaddrinfo")
Bind(t) ==
  /\ pc[t] = "bind"
  /\ real_getaddrinfo' = dlsym
  /\ observed' = [observed EXCEPT ![t] = TRUE]
  /\ pc' = [pc EXCEPT ![t] = "lookup"]
  /\ UNCHANGED <<CURSOR_DNS_OVERRIDES, args, env, found, override_addr, req,
                 calls, out, ret, lastCall>>

\* if (node && lookup_override(node, &override_addr))
Lookup(t) ==
  /\ pc[t] = "lookup"
  /\ LET node == args[t].node
         e    == getenv(CURSOR_DNS_OVERRIDES)
         r    == IF node # NULL THEN lookup_override(e, node) ELSE NotFound
     IN  /\ env' = [env EXCEPT ![t] = IF node # NULL THEN e ELSE NULL]
         /\ found' = [found EXCEPT ![t] = r.found]
         /\ override_addr' = [override_addr EXCEPT ![t] = r.addr]
         /\ pc' = [pc EXCEPT ![t] =
                     IF node # NULL /\ r.found = 1 THEN "override" ELSE "fallback"]
  /\ UNCHANGED <<CURSOR_DNS_OVERRIDES, real_getaddrinfo, observed, args, req,
                 calls, out, ret, lastCall>>

\* The call through real_getaddrinfo with the given node and hints, and the
\* return of its value.  A call through a null pointer does not return.
Delegate(t, node, hints) ==
  \E fn \in Load(t), o \in RealOutcomes :
    /\ req' = [req EXCEPT ![t] = <<[fn |-> fn, node |-> node,
                                    service |-> args[t].service,
                                    hints |-> hints]>>]
    /\ calls' = [calls EXCEPT ![t] = calls[t] + 1]
    /\ IF fn = NullFn
       THEN /\ pc' = [pc EXCEPT ![t] = "crashed"]
            /\ UNCHANGED <<out, ret>>
       ELSE /\ pc' = [pc EXCEPT ![t] = "done"]
            /\ out' = [out EXCEPT ![t] = <<o>>]
            /\ ret' = [ret EXCEPT ![t] = <<RetVal(o)>>]
    /\ UNCHANGED <<CURSOR_DNS_OVERRIDES, real_getaddrinfo, observed, args, env,
                   found, override_addr, lastCall>>

\* The override branch: the numeric literal and override_hints.
DelegateOverride(t) ==
  /\ pc[t] = "override"
  /\ Delegate(t, inet_ntop(override_addr[t]), OverrideHints(args[t].hints))

\* The fallback branch: the caller's node and modified_hints.
DelegateFallback(t) ==
  /\ pc[t] = "fallback"
  /\ Delegate(t, args[t].node, ModifiedHints(args[t].hints))

\* getaddrinfo has returned; its locals are gone.
Return(t) ==
  /\ pc[t] = "done"
  /\ lastCall' = <<[node |-> args[t].node, env |-> env[t],
                    found |-> found[t], addr |-> override_addr[t]]>>
  /\ pc' = [pc EXCEPT ![t] = "idle"]
  /\ args' = [args EXCEPT ![t] = NoArgs]
  /\ env' = [env EXCEPT ![t] = NULL]
  /\ found' = [found EXCEPT ![t] = 0]
  /\ override_addr' = [override_addr EXCEPT ![t] = <<>>]
  /\ req' = [req EXCEPT ![t] = <<>>]
  /\ calls' = [calls EXCEPT ![t] = 0]
  /\ out' = [out EXCEPT ![t] = <<>>]
  /\ ret' = [ret EXCEPT ![t] = <<>>]
  /\ UNCHANGED <<CURSOR_DNS_OVERRIDES, real_getaddrinfo, observed>>

\* The host process sets, changes or unsets CURSOR_DNS_OVERRIDES.
SetEnv(values) ==
  /\ \E v \in values \ {CURSOR_DNS_OVERRIDES} : CURSOR_DNS_OVERRIDES' = v
  /\ UNCHANGED <<real_getaddrinfo, observed, pc, args, env, found,
                 override_addr, req, calls, out, ret, lastCall>>

\* ------------------------------------------------------------------ inputs
IP_1111 == <<"1", ".", "1", ".", "1", ".", "1">>
IP_2222 == <<"2", ".", "2", ".", "2", ".", "2">>
IP_loop == <<"1", "2", "7", ".", "0", ".", "0", ".", "1">>
IP_doc  == <<"2", "0", "3", ".", "0", ".", "1", "1", "3", ".", "9">>

RECURSIVE Join(_)
\* entries joined by commas
Join(es) ==
  IF es = <<>> THEN <<>>
  ELSE IF Len(es) = 1 THEN es[1]
  ELSE es[1] \o <<",">> \o Join(Tail(es))

\* Patterns and address literals of the generated entries.
GenPatterns == {<<"a">>, <<"*", ".", "a">>, <<"x", ".", "a">>, <<"*", ".">>, <<>>}
GenLiterals ==
  {IP_1111, IP_2222, <<"x">>, <<"1", ".", "1", ".", "1">>, <<"a", "=">> \o IP_2222}
\* Entries: pattern=literal, and entries without '=' (one of them empty).
GenEntries ==
  {p \o <<"=">> \o l : p \in GenPatterns, l \in GenLiterals} \cup {<<"a">>, <<>>}

\* Every configuration of at most MaxEntries generated entries.
GenConfigs ==
  UNION {{Join(es) : es \in [1..n -> GenEntries]} : n \in 0..MaxEntries}

\* Hostnames looked up in the generated configurations.
GenNodes ==
  {NULL, <<>>, <<"a">>, <<".", "a">>, <<"x", ".", "a">>, <<"x", "a">>,
   <<"*", ".", "a">>, <<"y", ".", "x", ".", "a">>, <<"x", ".">>}

\* Values the host process gives CURSOR_DNS_OVERRIDES.
EnvValues ==
  {NULL,
   <<>>,
   Join(<<<<"a", "=">> \o IP_1111, <<"a", "=">> \o IP_2222>>),
   Join(<<<<"a", "=", "x">>, <<"a", "=">> \o IP_2222>>),
   Join(<<<<"*", ".", "a", "=">> \o IP_loop, <<"x", ".", "a", "=">> \o IP_2222>>),
   Join(<<<<"b">>, <<"a", "=">> \o IP_doc>>)}

\* Arguments the host process calls getaddrinfo with.
Nodes == {NULL, <<"a">>, <<"x", ".", "a">>, <<"b">>}
Services == {NULL, <<"8", "0">>}
CallerHints ==
  {<<>>} \cup
  {<<[ZeroAddrinfo EXCEPT !.ai_flags = h[1], !.ai_family = h[2],
                          !.ai_socktype = h[3], !.ai_protocol = h[4]]>> :
     h \in {<<0, 0, 0, 0>>, <<3, 10, 2, 17>>, <<1024, 2, 1, 6>>}}

\* The arguments and the configurations of the concurrent specification.
ThreadNodes == {<<"a">>}
ThreadEnvValues == {NULL, <<"a", "=">> \o IP_1111}

\* ---------------------------------------------------------- specifications
\* The process before any call; env is a value the variable has at start.
Start(values) ==
  /\ CURSOR_DNS_OVERRIDES \in values
  /\ real_getaddrinfo = NullFn
  /\ observed = [t \in Threads |-> FALSE]
  /\ pc = [t \in Threads |-> "idle"]
  /\ args = [t \in Threads |-> NoArgs]
  /\ env = [t \in Threads |-> NULL]
  /\ found = [t \in Threads |-> 0]
  /\ override_addr = [t \in Threads |-> <<>>]
  /\ req = [t \in Threads |-> <<>>]
  /\ calls = [t \in Threads |-> 0]
  /\ out = [t \in Threads |-> <<>>]
  /\ ret = [t \in Threads |-> <<>>]
  /\ lastCall = <<>>

\* One calling thread, every argument, the variable changing at any time.
\* A call's locals are its own; what threads share is real_getaddrinfo, which
\* SpecThreads covers, and the environment, which SetEnv changes here.
Init == Start(EnvValues)

Next ==
  \/ SetEnv(EnvValues)
  \/ \E t \in Callers : Enter(t, Nodes, Services, CallerHints)
  \/ \E t \in Callers : CheckBind(t)
  \/ \E t \in Callers : Bind(t)
  \/ \E t \in Callers : Lookup(t)
  \/ \E t \in Callers : DelegateOverride(t)
  \/ \E t \in Callers : DelegateFallback(t)
  \/ \E t \in Callers : Return(t)

Spec == Init /\ [][Next]_vars

\* NumThreads threads calling concurrently from the first use on.
InitThreads == Start(ThreadEnvValues)

NextThreads ==
  \/ SetEnv(ThreadEnvValues)
  \/ \E t \in Threads : Enter(t, ThreadNodes, {NULL}, {<<>>})
  \/ \E t \in Threads : CheckBind(t)
  \/ \E t \in Threads : Bind(t)
  \/ \E t \in Threads : Lookup(t)
  \/ \E t \in Threads : DelegateOverride(t)
  \/ \E t \in Threads : DelegateFallback(t)
  \/ \E t \in Threads : Return(t)

SpecThreads == InitThreads /\ [][NextThreads]_vars

\* lookup_override applied to every generated configuration and hostname:
\* the calling thread stands at the lookup, the real resolver already bound.
InitLookup ==
  /\ CURSOR_DNS_OVERRIDES \in GenConfigs \cup {NULL}
  /\ real_getaddrinfo = RealFn
  /\ observed = [t \in Threads |-> t \in Callers]
  /\ pc = [t \in Threads |-> IF t \in Callers THEN "lookup" ELSE "idle"]
  /\ \E n \in GenNodes :
       args = [t \in Threads |->
                 IF t \in Callers THEN [NoArgs EXCEPT !.node = n] ELSE NoArgs]
  /\ env = [t \in Threads |-> NULL]
  /\ found = [t \in Threads |-> 0]
  /\ override_addr = [t \in Threads |-> <<>>]
  /\ req = [t \in Threads |-> <<>>]
  /\ calls = [t \in Threads |-> 0]
  /\ out = [t \in Threads |-> <<>>]
  /\ ret = [t \in Threads |-> <<>>]
  /\ lastCall = <<>>

NextLookup == \E t \in Callers : Lookup(t)

SpecLookup == InitLookup /\ [][NextLookup]_vars

\* ------------------------------------------- the configuration, as specified
\* The reading of a configuration string the claims are stated in: fields
\* between commas, each split at its first '='.
Contains(s, c) == \E i \in 1..Len(s) : s[i] = c

FirstIndexOf(s, c) ==
  CHOOSE i \in 1..Len(s) : s[i] = c /\ \A j \in 1..(i - 1) : s[j] # c

RECURSIVE Fields(_, _)
Fields(s, d) ==
  IF ~Contains(s, d) THEN <<s>>
  ELSE LET i == FirstIndexOf(s, d) IN
       <<SubSeq(s, 1, i - 1)>> \o Fields(SubSeq(s, i + 1, Len(s)), d)

EntriesOf(cfg) == Fields(cfg, ",")
HasEq(e) == Contains(e, "=")
PatternOf(e) == SubSeq(e, 1, FirstIndexOf(e, "=") - 1)
LiteralOf(e) == SubSeq(e, FirstIndexOf(e, "=") + 1, Len(e))

EndsWith(h, suffix) ==
  /\ Len(h) >= Len(suffix)
  /\ \A k \in 1..Len(suffix) : h[Len(h) - Len(suffix) + k] = suffix[k]

PatternMatches(p, h) ==
  \/ p = h
  \/ Len(p) >= 2 /\ p[1] = "*" /\ p[2] = "." /\ EndsWith(h, Tail(p))

\* Positions of the entries of cfg whose pattern matches hostname h.
MatchingEntries(cfg, h) ==
  {i \in 1..Len(EntriesOf(cfg)) :
     HasEq(EntriesOf(cfg)[i]) /\ PatternMatches(PatternOf(EntriesOf(cfg)[i]), h)}

FirstMatching(cfg, h) ==
  CHOOSE i \in MatchingEntries(cfg, h) : \A j \in MatchingEntries(cfg, h) : i <= j

\* The address literal of the first entry of cfg whose pattern matches h.
DecidingLiteral(cfg, h) == LiteralOf(EntriesOf(cfg)[FirstMatching(cfg, h)])

\* Some entry of cfg matches h (both present).
Decided(cfg, h) ==
  cfg # NULL /\ h # NULL /\ MatchingEntries(cfg, h) # {}

\* The outcome the specified algorithm gives for cfg and h.
SpecifiedOutcome(cfg, h) ==
  IF ~Decided(cfg, h) THEN [found |-> 0, addr |-> <<>>]
  ELSE LET r == inet_pton(DecidingLiteral(cfg, h)) IN
       IF r.ret = 1 THEN [found |-> 1, addr |-> r.addr]
       ELSE [found |-> 0, addr |-> <<>>]

\* cfg with the entries that hold no '=' removed.
WithoutMalformed(cfg) == Join(SelectSeq(EntriesOf(cfg), HasEq))

\* What thread t's lookup reported, once it has run.
Outcome(t) == [found |-> found[t], addr |-> override_addr[t]]
LookedUp(t) == pc[t] \in {"override", "fallback", "done"}
\* The hints structure the caller's hints stand for.
HintsBase(t) == IF args[t].hints # <<>> THEN args[t].hints[1] ELSE ZeroAddrinfo

\* The request of thread t is the family-forced fallback request.
IsFallbackRequest(t) ==
  /\ req[t] # <<>>
  /\ req[t][1].node = args[t].node
  /\ req[t][1].service = args[t].service
  /\ req[t][1].hints.ai_family = AF_INET
  /\ \A f \in DOMAIN ZeroAddrinfo \ {"ai_family"} :
       req[t][1].hints[f] = HintsBase(t)[f]

\* ------------------------------------------------------------------ claims

\* C1: first match wins.  For every configuration and hostname the outcome of
\* lookup_override is decided by the first entry (left to right) whose pattern
\* matches the hostname: found exactly when that entry's literal parses as
\* IPv4, and then the reported address is that entry's address, whatever the
\* later entries say.
C1_FirstMatchWins ==
  \A t \in Callers :
    (LookedUp(t) /\ Decided(CURSOR_DNS_OVERRIDES, args[t].node)) =>
      LET r == inet_pton(DecidingLiteral(CURSOR_DNS_OVERRIDES, args[t].node)) IN
      /\ (found[t] = 1) <=> (r.ret = 1)
      /\ r.ret = 1 => override_addr[t] = r.addr

\* C1 witness: an earlier wildcard entry has beaten a later exact entry that
\* carries another valid address.
C1_Witness ==
  \E t \in Callers :
    /\ LookedUp(t)
    /\ Decided(CURSOR_DNS_OVERRIDES, args[t].node)
    /\ LET cfg == CURSOR_DNS_OVERRIDES
           h   == args[t].node
           es  == EntriesOf(cfg)
       IN  /\ PatternOf(es[FirstMatching(cfg, h)]) # h
           /\ found[t] = 1
           /\ override_addr[t] = inet_pton(DecidingLiteral(cfg, h)).addr
           /\ \E j \in MatchingEntries(cfg, h) :
                /\ j > FirstMatching(cfg, h)
                /\ PatternOf(es[j]) = h
                /\ inet_pton(LiteralOf(es[j])).ret = 1
                /\ inet_pton(LiteralOf(es[j])).addr # override_addr[t]

\* cfg is one entry `*.suffix=ip` with a valid IPv4 literal.
SingleWildcard(cfg) ==
  /\ cfg # NULL
  /\ ~Contains(cfg, ",")
  /\ HasEq(cfg)
  /\ Len(PatternOf(cfg)) >= 2
  /\ PatternOf(cfg)[1] = "*"
  /\ PatternOf(cfg)[2] = "."
  /\ inet_pton(LiteralOf(cfg)).ret = 1

\* C2: with a configuration made of the single entry `*.suffix=ip` (ip a valid
\* IPv4 literal), an override is reported if and only if the hostname ends
\* with the bytes `.suffix`.
C2_WildcardIffSuffix ==
  \A t \in Callers :
    (LookedUp(t) /\ SingleWildcard(CURSOR_DNS_OVERRIDES)) =>
      ((found[t] = 1) <=>
         (/\ args[t].node # NULL
          /\ EndsWith(args[t].node, Tail(PatternOf(CURSOR_DNS_OVERRIDES)))))

\* C2 witness: a hostname several labels below the suffix is overridden by the
\* single wildcard entry.
C2_Witness ==
  \E t \in Callers :
    /\ LookedUp(t)
    /\ SingleWildcard(CURSOR_DNS_OVERRIDES)
    /\ args[t].node # NULL
    /\ Len(args[t].node) > Len(PatternOf(CURSOR_DNS_OVERRIDES)) + 1
    /\ found[t] = 1

\* C3: when the first entry whose pattern matches the hostname carries a
\* literal that does not parse as IPv4, no override is reported, whatever the
\* later entries are, and the interceptor takes the family-forced fallback
\* with the original hostname.
C3_StopAtFirstPatternMatch ==
  \A t \in Callers :
    (/\ LookedUp(t)
     /\ Decided(env[t], args[t].node)
     /\ inet_pton(DecidingLiteral(env[t], args[t].node)).ret # 1) =>
      /\ found[t] = 0
      /\ pc[t] # "override"
      /\ pc[t] = "done" => IsFallbackRequest(t)

\* C3 witness: the call has been delegated although a later entry matches the
\* hostname with a valid literal.
C3_Witness ==
  \E t \in Callers :
    /\ pc[t] = "done"
    /\ Decided(env[t], args[t].node)
    /\ inet_pton(DecidingLiteral(env[t], args[t].node)).ret # 1
    /\ \E j \in MatchingEntries(env[t], args[t].node) :
         inet_pton(LiteralOf(EntriesOf(env[t])[j])).ret = 1
    /\ IsFallbackRequest(t)

\* C4: in the override branch the real resolver is handed the override's
\* address as a numeric literal, the caller's service, family IPv4, flags
\* exactly AI_NUMERICHOST, the caller's socket type and protocol (SOCK_STREAM
\* and 0 without hints) and nothing else of the caller's hints.
C4_OverrideRequest ==
  \A t \in Callers :
    /\ (pc[t] \in {"override", "fallback"}) =>
         ((pc[t] = "override") <=> (found[t] = 1))
    /\ (pc[t] = "done" /\ found[t] = 1) =>
         /\ req[t] # <<>>
         /\ inet_pton(req[t][1].node) = [ret |-> 1, addr |-> override_addr[t]]
         /\ req[t][1].node = DecidingLiteral(env[t], args[t].node)
         /\ req[t][1].service = args[t].service
         /\ req[t][1].hints.ai_family = AF_INET
         /\ req[t][1].hints.ai_flags = AI_NUMERICHOST
         /\ req[t][1].hints.ai_socktype =
              (IF args[t].hints # <<>> THEN args[t].hints[1].ai_socktype
               ELSE SOCK_STREAM)
         /\ req[t][1].hints.ai_protocol =
              (IF args[t].hints # <<>> THEN args[t].hints[1].ai_protocol ELSE 0)
         /\ \A f \in {"ai_addrlen", "ai_addr", "ai_canonname", "ai_next"} :
              req[t][1].hints[f] = 0

\* C4 witness: an override request built from hints whose family and flags
\* differ from the ones handed on.
C4_Witness ==
  \E t \in Callers :
    /\ pc[t] = "done"
    /\ found[t] = 1
    /\ args[t].hints # <<>>
    /\ args[t].hints[1].ai_family # AF_INET
    /\ args[t].hints[1].ai_flags # 0
    /\ req[t][1].hints.ai_socktype = args[t].hints[1].ai_socktype
    /\ req[t][1].node # args[t].node

\* C5, the request: without an override the real resolver is handed the
\* caller's hostname and service and the caller's hints (all zero without
\* hints) with the family set to IPv4 and every other field as it was.
C5_FallbackInv ==
  \A t \in Callers : (pc[t] = "done" /\ found[t] = 0) => IsFallbackRequest(t)

\* C5, the frame: while a call is in progress its arguments, the caller's
\* hints structure among them, stay as the caller passed them.
C5_CallerHintsKept ==
  \A t \in Callers :
    (pc[t] # "idle" /\ pc'[t] # "idle") => args'[t] = args[t]

\* C5: the fallback request and the untouched caller's hints.
C5_FallbackRequest == [](C5_FallbackInv) /\ [][C5_CallerHintsKept]_vars

\* C5 witness: a fallback request for hints that asked for IPv6.
C5_Witness ==
  \E t \in Callers :
    /\ pc[t] = "done"
    /\ found[t] = 0
    /\ args[t].hints # <<>>
    /\ args[t].hints[1].ai_family = 10
    /\ args[t].hints[1].ai_flags # 0
    /\ req[t][1].hints.ai_family = AF_INET

\* C6: every invocation that returns has called the real resolver exactly
\* once, in either branch, and returns that call's status and result; before
\* the delegation nothing has been called or returned.
C6_DelegatesOnce ==
  \A t \in Callers :
    /\ pc[t] # "crashed"
    /\ pc[t] = "done" =>
         /\ calls[t] = 1
         /\ out[t] # <<>>
         /\ ret[t] = out[t]
    /\ pc[t] # "done" => (calls[t] = 0 /\ ret[t] = <<>>)

\* C6 witness: a failed delegation is returned as it is, after one call.
C6_Witness ==
  \E t \in Callers :
    /\ pc[t] = "done"
    /\ calls[t] = 1
    /\ out[t][1].status # 0
    /\ ret[t][1].status = out[t][1].status

\* C7, the calls: every thread that has delegated called through libc's
\* getaddrinfo, and no thread has called through a null pointer.
C7_CallsThroughReal ==
  /\ real_getaddrinfo \in {NullFn, RealFn}
  /\ \A t \in Threads :
       /\ pc[t] # "crashed"
       /\ req[t] # <<>> => req[t][1].fn = RealFn

\* C7, the pointer: once set, real_getaddrinfo keeps its value.
C7_SetOnce ==
  real_getaddrinfo # NullFn => real_getaddrinfo' = real_getaddrinfo

\* C7: lazy binding under concurrent first use.
C7_LazyBindingSafe == [](C7_CallsThroughReal) /\ [][C7_SetOnce]_vars

\* C7 witness: one thread has delegated while another is about to store the
\* pointer again.
C7_Witness ==
  \E t1, t2 \in Threads :
    /\ t1 # t2
    /\ pc[t1] = "done"
    /\ req[t1][1].fn = RealFn
    /\ pc[t2] = "bind"
    /\ real_getaddrinfo = RealFn

\* C8: the lookup of every call gives the outcome specified for the value
\* CURSOR_DNS_OVERRIDES has when the lookup runs and for the call's hostname,
\* and the branch follows from that outcome alone.
C8_LookupStep ==
  \A t \in Callers :
    (pc[t] = "lookup" /\ pc'[t] # "lookup") =>
      /\ Outcome(t)' = SpecifiedOutcome(CURSOR_DNS_OVERRIDES, args[t].node)
      /\ pc'[t] = IF found'[t] = 1 THEN "override" ELSE "fallback"

C8_ReadFresh == [][C8_LookupStep]_vars

\* C8 witness: after the variable changed, the same hostname that the
\* previous call resolved to one address is overridden to another.
C8_Witness ==
  \E t \in Callers :
    /\ LookedUp(t)
    /\ lastCall # <<>>
    /\ lastCall[1].node = args[t].node
    /\ lastCall[1].found = 1
    /\ found[t] = 1
    /\ lastCall[1].addr # override_addr[t]

\* C9, removal: the outcome is the one for the configuration without its
\* entries that hold no '='.
C9_SkipsMalformed ==
  \A t \in Callers :
    (LookedUp(t) /\ CURSOR_DNS_OVERRIDES # NULL) =>
      Outcome(t) =
        lookup_override(WithoutMalformed(CURSOR_DNS_OVERRIDES), args[t].node)

\* C9, the split: the pattern ends at the first '=' and all that follows is
\* the literal, so a deciding entry whose remainder holds another '=' gives no
\* override, and a reported address parses from the whole remainder.
C9_FirstEqSplits ==
  \A t \in Callers :
    (LookedUp(t) /\ Decided(CURSOR_DNS_OVERRIDES, args[t].node)) =>
      LET lit == DecidingLiteral(CURSOR_DNS_OVERRIDES, args[t].node) IN
      /\ HasEq(lit) => found[t] = 0
      /\ found[t] = 1 => inet_pton(lit) = [ret |-> 1, addr |-> override_addr[t]]

\* C9: entries without '=' are skipped and the first '=' splits an entry.
C9_MalformedSkipped == C9_SkipsMalformed /\ C9_FirstEqSplits

\* C9 witness: an entry without '=' that spells the hostname stands before
\* the entry that gave the override.
C9_Witness ==
  \E t \in Callers :
    /\ LookedUp(t)
    /\ Decided(CURSOR_DNS_OVERRIDES, args[t].node)
    /\ found[t] = 1
    /\ \E i \in 1..(FirstMatching(CURSOR_DNS_OVERRIDES, args[t].node) - 1) :
         EntriesOf(CURSOR_DNS_OVERRIDES)[i] = args[t].node

\* C10, the lookup: with the variable unset or empty, or without a hostname,
\* the lookup reports no override and the fallback branch is taken.
C10_LookupStep ==
  \A t \in Callers :
    (/\ pc[t] = "lookup"
     /\ pc'[t] # "lookup"
     /\ \/ CURSOR_DNS_OVERRIDES \in {NULL, <<>>}
        \/ args[t].node = NULL) =>
      /\ found'[t] = 0
      /\ pc'[t] = "fallback"

\* C10, the call: a call without override hands the original (possibly
\* absent) hostname to the real resolver with the family forced, and returns
\* the resolver's status.
C10_FallbackCall ==
  \A t \in Callers :
    /\ pc[t] = "fallback" => found[t] = 0
    /\ (pc[t] = "done" /\ found[t] = 0) =>
         /\ IsFallbackRequest(t)
         /\ ret[t] = out[t]
         /\ ret[t] # <<>>

\* C10: absent inputs are folded into no override.
C10_AbsentInputs == [](C10_FallbackCall) /\ [][C10_LookupStep]_vars

\* C10 witness: a hostname was resolved with the variable unset.
C10_Witness ==
  \E t \in Callers :
    /\ pc[t] = "done"
    /\ args[t].node # NULL
    /\ env[t] = NULL
    /\ found[t] = 0
    /\ req[t][1].node = args[t].node

====
